---- MODULE Spec2Model ----
(***************************************************************************)
(* Measurement sensor device class for LEGO Mindstorms EV3                 *)
(* (drivers/legoev3/msensor_class.c).                                      *)
(*                                                                         *)
(* Two parts are modelled:                                                 *)
(*   - the numeric codec msensor_ftoi / msensor_itof, on 32-bit words      *)
(*     (C int, unsigned and unsigned long are 32 bits wide on the ARM9     *)
(*     target);                                                            *)
(*   - the sysfs attribute handlers of a msensor_device: mode, value<N>    *)
(*     and bin_data, over a driver that owns the current mode and the      *)
(*     per-mode raw_data buffers.                                          *)
(*                                                                         *)
(* A 32-bit word is a record [hi, lo] of two 16-bit halves, so that every  *)
(* intermediate of the arithmetic below stays inside the range of the      *)
(* model checker's integers while the C arithmetic wraps modulo 2^32.      *)
(***************************************************************************)
EXTENDS Integers, Sequences, FiniteSets, TLC

VARIABLES
    cop,        \* codec: which conversion this run performs, "ftoi" or "itof"
    cf,         \* codec: the argument f of msensor_ftoi (a word)
    cv,         \* codec: the argument i of msensor_itof (a word, two's complement)
    cdp,        \* codec: the argument dp
    cpc,        \* codec: position in the function being executed
    wf,         \* msensor_itof: its local unsigned long f
    we,         \* msensor_itof: its local unsigned char e
    wdp,        \* msensor_itof: what is left of dp in `while (dp-- > 0)`
    cres,       \* codec: the value returned by the conversion
    crt,        \* codec: msensor_ftoi(msensor_itof(i, dp), dp) once computed
    cur_mode,   \* driver: the mode its get_mode callback reports
    mode_info,  \* device: ms->mode_info[], the mode table with its raw_data
    ret,        \* attribute surface: the last handler call and what it returned
    rpc,        \* concurrent value read: position inside msensor_show_value
    rmode,      \* concurrent value read: `mode` of msensor_show_value (line 231)
    rindex,     \* concurrent value read: the parsed index
    hmode,      \* concurrent value read: `mode` of the msensor_raw_*_value helper
    rval,       \* concurrent value read: the value the helper returned
    switched    \* history: the mode was switched between the two get_mode calls

codecVars == <<cop, cf, cv, cdp, cpc, wf, we, wdp, cres, crt>>

deviceVars == <<cur_mode, mode_info, ret>>

readerVars == <<rpc, rmode, rindex, hmode, rval, switched>>

vars == <<cop, cf, cv, cdp, cpc, wf, we, wdp, cres, crt,
          cur_mode, mode_info, ret, rpc, rmode, rindex, hmode, rval, switched>>

----------------------------------------------------------------------------
(* Bounds of the model. *)

\* largest number of decimal places handed to the codec
MaxDp == 3

\* number of distinct samples the driver can put into a raw buffer
NumSamples == 1

----------------------------------------------------------------------------
(* 32-bit words and the C operators the code applies to them. *)

W(h, l) == [hi |-> h, lo |-> l]

Zero32 == W(0, 0)

\* INT_MAX = 0x7FFFFFFF and INT_MIN = 0x80000000 as words
INT_MAX == W(32767, 65535)
INT_MIN == W(32768, 0)

\* a non-negative integer below 2^31 as a word
FromNat(n) == W(n \div 65536, n % 65536)

\* unsigned addition modulo 2^32
Add32(a, b) ==
    LET l == a.lo + b.lo
        h == a.hi + b.hi + (l \div 65536)
    IN  W(h % 65536, l % 65536)

\* two's complement negation modulo 2^32
Neg32(a) == Add32(W(65535 - a.hi, 65535 - a.lo), W(0, 1))

\* an integer of small magnitude as a two's complement word
FromInt(n) == IF n >= 0 THEN FromNat(n) ELSE Neg32(FromNat(-n))

\* is the word negative when read as a C int
IsNeg(a) == a.hi >= 32768

\* i *= 10 on an unsigned long
Mul10(a) ==
    LET l == a.lo * 10
        h == a.hi * 10 + (l \div 65536)
    IN  W(h % 65536, l % 65536)

\* f /= 10 on an unsigned long (truncating)
Div10(a) ==
    LET r == a.hi % 10
    IN  W(a.hi \div 10, (r * 65536 + a.lo) \div 10)

\* a << k on an unsigned long, 0 <= k <= 31
Shl32(a, k) ==
    IF k = 0 THEN a
    ELSE IF k < 16
         THEN W(((a.hi * 2^k) % 65536) + (a.lo \div 2^(16 - k)),
                (a.lo * 2^k) % 65536)
         ELSE W((a.lo * 2^(k - 16)) % 65536, 0)

\* a >> k on an unsigned long, 0 <= k <= 31
Shr32(a, k) ==
    IF k = 0 THEN a
    ELSE IF k < 16
         THEN W(a.hi \div 2^k,
                (a.lo \div 2^k) + (a.hi % 2^k) * 2^(16 - k))
         ELSE W(0, a.hi \div 2^(k - 16))

\* a % (1L << k) on an unsigned long, 1 <= k <= 31
Mod2k(a, k) ==
    IF k <= 16 THEN W(0, a.lo % 2^k)
    ELSE W(a.hi % 2^(k - 16), a.lo)

----------------------------------------------------------------------------
(* msensor_ftoi *)

\* int s = (f & 0x80000000) ? -1 : 1;
FloatSign(f) == IF f.hi >= 32768 THEN -1 ELSE 1

\* unsigned char e = (f & 0x7F800000) >> 23;
FloatExp(f) == (f.hi \div 128) % 256

\* unsigned long i = f & 0x007FFFFFL;
FloatMant(f) == W(f.hi % 128, f.lo)

\* while (dp--) i *= 10;
RECURSIVE Scale10(_, _)
Scale10(i, dp) == IF dp = 0 THEN i ELSE Scale10(Mul10(i), dp - 1)

\* return s * i;  the product is taken in unsigned long and converted to int
ApplySign(s, i) == IF s = 1 THEN i ELSE Neg32(i)

\* m = i % (1L << k); i += m >> 1; i >>= k;   for a shift count 1 <= k <= 31
RoundShift(i, k) == Shr32(Add32(i, Shr32(Mod2k(i, k), 1)), k)

\* The same statements with a shift count of 32 or more, which C leaves
\* undefined for a 32-bit long: either the count is taken modulo 32 (a
\* barrel shifter that masks it), or everything is shifted out.
UndefinedShiftRight(i, k) ==
    { IF k % 32 = 0 THEN i ELSE RoundShift(i, k % 32), Zero32 }

\* i <<= k with a shift count of 32 or more: undefined in the same way
UndefinedShiftLeft(i, k) == { Shl32(i, k % 32), Zero32 }

\* the same return with the sign ignored
InfNan_unsigned(s) == INT_MAX

\* return s == 1 ? INT_MAX : INT_MIN;
InfNan(s) == IF s = 1 THEN INT_MAX ELSE INT_MIN

\* The set of values a call msensor_ftoi(f, dp) can return: one value where
\* the C is defined, the outcomes above where it is not.
msensor_ftoi(f, dp) ==
    LET s == FloatSign(f)
        e == FloatExp(f)
        i == Scale10(Add32(FloatMant(f), W(128, 0)), dp)
    IN  IF e = 0 THEN {Zero32}
        ELSE IF e = 255 THEN {InfNan(s)}
        ELSE IF e < 150
             THEN IF 150 - e < 32
                  THEN {ApplySign(s, RoundShift(i, 150 - e))}
                  ELSE {ApplySign(s, r) : r \in UndefinedShiftRight(i, 150 - e)}
             ELSE IF e - 150 < 32
                  THEN {ApplySign(s, Shl32(i, e - 150))}
                  ELSE {ApplySign(s, r) : r \in UndefinedShiftLeft(i, e - 150)}

----------------------------------------------------------------------------
(* The measurement device: its mode table and the driver behind it. *)

\* .size = MSENSOR_RAW_DATA_SIZE of the bin_data attribute
MSENSOR_RAW_DATA_SIZE == 32

\* errno values returned negated by the handlers
EINVAL == 22
ENXIO == 6

\* the four values of mode_info[].format
Formats == {"MSENSOR_DATA_8", "MSENSOR_DATA_16", "MSENSOR_DATA_32",
            "MSENSOR_DATA_FLOAT"}

\* The static part of the mode table a sensor driver fills in: one mode per
\* format, with different data_sets so that the index bound depends on the
\* mode.
ModeTable ==
    << [name |-> <<"A">>, format |-> "MSENSOR_DATA_8",
        data_sets |-> 8, decimals |-> 0],
       [name |-> <<"B">>, format |-> "MSENSOR_DATA_16",
        data_sets |-> 2, decimals |-> 0],
       [name |-> <<"C">>, format |-> "MSENSOR_DATA_32",
        data_sets |-> 3, decimals |-> 0],
       [name |-> <<"D">>, format |-> "MSENSOR_DATA_FLOAT",
        data_sets |-> 2, decimals |-> 1] >>

\* ms->num_modes
num_modes == Len(ModeTable)

Modes == 0..(num_modes - 1)

RawOffsets == 0..(MSENSOR_RAW_DATA_SIZE - 1)

\* byte k of the s-th sample a sensor can deliver; sample 1 starts with the
\* bytes 01 00 FF FF
SampleByte(s, k) ==
    IF s = 1 /\ k < 4 THEN <<1, 0, 255, 255>>[k + 1]
    ELSE IF k % 4 = 0 THEN (s * 37 + k * 11 + 1) % 256
    ELSE IF k % 4 = 1 THEN (s * 59 + k * 7) % 256
    ELSE IF k % 4 = 2 THEN (s * 64 + (k \div 4) * 32) % 256
    ELSE 63 + s + 128 * ((k \div 4) % 2)

Sample(s) == [k \in RawOffsets |-> SampleByte(s, k)]

ZeroBuffer == [k \in RawOffsets |-> 0]

\* mode_info[] with the given raw_data contents
TableWith(raw) ==
    [m \in Modes |->
        [name |-> ModeTable[m + 1].name,
         format |-> ModeTable[m + 1].format,
         data_sets |-> ModeTable[m + 1].data_sets,
         decimals |-> ModeTable[m + 1].decimals,
         raw_data |-> raw[m]]]

NoCall == [op |-> "none", arg |-> <<>>, rc |-> 0, called |-> FALSE,
           val |-> Zero32, out |-> ZeroBuffer]

\* the device part at rest, as the codec runs leave it
DeviceIdle ==
    /\ cur_mode = 0
    /\ mode_info = TableWith([m \in Modes |-> ZeroBuffer])
    /\ ret = NoCall
    /\ rpc = "idle"
    /\ rmode = 0
    /\ rindex = 0
    /\ hmode = 0
    /\ rval = Zero32
    /\ switched = FALSE

\* the codec part at rest, as the device runs leave it
CodecIdle ==
    /\ cop = "none"
    /\ cf = Zero32
    /\ cv = Zero32
    /\ cdp = 0
    /\ cpc = "start"
    /\ wf = Zero32
    /\ we = 0
    /\ wdp = 0
    /\ cres = Zero32
    /\ crt = Zero32

(* The driver's callbacks. *)

\* ms->get_mode(ms->context)
get_mode(cur) == cur

\* ms->set_mode(ms->context, i): the mode the driver is in afterwards and
\* what it returns; a failure keeps the previous mode
set_mode(cur, i) ==
    {[mode |-> i, err |-> 0]} \cup {[mode |-> cur, err |-> -e] : e \in {5, 16}}

\* ms->write_data(ms->context, buf, off, count): the bytes land in the
\* current mode's raw_data
write_data(raw, buf, off, count) ==
    [k \in RawOffsets |->
        IF k >= off /\ k < off + count THEN buf[k - off] ELSE raw[k]]

\* sysfs_streq(s1, s2): equal, a single trailing newline on either ignored
RECURSIVE sysfs_streq(_, _)
sysfs_streq(s1, s2) ==
    IF s1 # <<>> /\ s2 # <<>> /\ Head(s1) = Head(s2)
    THEN sysfs_streq(Tail(s1), Tail(s2))
    ELSE \/ s1 = <<>> /\ s2 = <<>>
         \/ s1 = <<>> /\ s2 = <<"\n">>
         \/ s1 = <<"\n">> /\ s2 = <<>>

(* Decoding raw_data. *)

\* an s8 converted to int
SignExtend8(b) == IF b >= 128 THEN W(65535, 65280 + b) ELSE W(0, b)

\* an s16 converted to int
SignExtend16(h) == IF h >= 32768 THEN W(65535, h) ELSE W(0, h)

\* *(s8 *)(raw_data + index)
msensor_raw_s8_value(raw, index) == SignExtend8(raw[index])

\* the same with the element index used as the byte offset
msensor_raw_s16_value_unscaled(raw, index) ==
    SignExtend16(raw[index] + 256 * raw[index + 1])

\* *(s16 *)(raw_data + index * 2), little-endian
msensor_raw_s16_value(raw, index) ==
    SignExtend16(raw[index * 2] + 256 * raw[index * 2 + 1])

\* *(s32 *)(raw_data + index * 4), little-endian
msensor_raw_s32_value(raw, index) ==
    W(raw[index * 4 + 2] + 256 * raw[index * 4 + 3],
      raw[index * 4] + 256 * raw[index * 4 + 1])

\* msensor_ftoi(*(u32 *)(raw_data + index * 4), decimals): the values it
\* can return
msensor_raw_float_value(raw, decimals, index) ==
    msensor_ftoi(msensor_raw_s32_value(raw, index), decimals)

\* the switch of msensor_show_value: the values the helper chosen by
\* `format` can return for the buffer and decimals of mode_info[mode]
RawValue(format, info, index) ==
    IF format = "MSENSOR_DATA_8"
    THEN {msensor_raw_s8_value(info.raw_data, index)}
    ELSE IF format = "MSENSOR_DATA_16"
    THEN {msensor_raw_s16_value(info.raw_data, index)}
    ELSE IF format = "MSENSOR_DATA_32"
    THEN {msensor_raw_s32_value(info.raw_data, index)}
    ELSE msensor_raw_float_value(info.raw_data, info.decimals, index)

\* the variant of the bound check that lets index == data_sets through
IndexOutOfRange_inclusive(index, data_sets) ==
    index < 0 \/ index > data_sets

\* if (index < 0 || index >= ms->mode_info[mode].data_sets)
IndexOutOfRange(index, data_sets) == index < 0 \/ index >= data_sets

\* the names of the value attributes: value0 .. value7
ValueAttrs ==
    {<<"v", "a", "l", "u", "e", d>> :
        d \in {"0", "1", "2", "3", "4", "5", "6", "7"}}

\* sscanf(attr->attr.name + 5, "%d", &index) on a one-digit suffix
DigitValue(d) ==
    CASE d = "0" -> 0 [] d = "1" -> 1 [] d = "2" -> 2 [] d = "3" -> 3
      [] d = "4" -> 4 [] d = "5" -> 5 [] d = "6" -> 6 [] d = "7" -> 7
      [] d = "8" -> 8 [] d = "9" -> 9

AttrIndex(name) == DigitValue(name[6])

\* number of decimal digits of an unsigned long
RECURSIVE NumDigits(_)
NumDigits(a) == IF Div10(a) = Zero32 THEN 1 ELSE 1 + NumDigits(Div10(a))

\* what sprintf(buf, "%d\n", v) returns
SprintfLen(v) ==
    IF IsNeg(v) THEN NumDigits(Neg32(v)) + 2 ELSE NumDigits(v) + 1

\* the variant of the mode lookup that falls back to the first mode
FindMode_default(buf, info) ==
    IF \E i \in Modes : sysfs_streq(buf, info[i].name)
    THEN CHOOSE i \in Modes :
            /\ sysfs_streq(buf, info[i].name)
            /\ \A j \in Modes : sysfs_streq(buf, info[j].name) => i <= j
    ELSE 0

\* the loop of msensor_store_mode: the first i whose name matches buf, or
\* num_modes when the loop runs to its end
FindMode(buf, info) ==
    IF \E i \in Modes : sysfs_streq(buf, info[i].name)
    THEN CHOOSE i \in Modes :
            /\ sysfs_streq(buf, info[i].name)
            /\ \A j \in Modes : sysfs_streq(buf, info[j].name) => i <= j
    ELSE num_modes

----------------------------------------------------------------------------
(* The codec runs: one conversion per behaviour, its arguments drawn in    *)
(* the initial state.                                                      *)

\* exponent fields: zero, the right-shift range, around 150, the left-shift
\* range up to and past the width of an int, and all ones
Exponents ==
    {0, 1, 100, 118, 119, 120, 121, 125, 126, 127, 128, 129, 130, 140,
     148, 149, 150, 151, 156, 157, 158, 159, 181, 182, 200, 254, 255}

\* mantissa fields (23 bits) as words
Mantissas ==
    {W(0, 0), W(0, 1), W(32, 0), W(64, 0), W(76, 52429), W(96, 0),
     W(127, 65535)}

FloatWord(sign, e, m) == W(sign * 32768 + e * 128 + m.hi, m.lo)

FtoiInputs ==
    {FloatWord(sign, e, m) : sign \in {0, 1}, e \in Exponents, m \in Mantissas}

\* arguments of msensor_itof
ItofInts ==
    {-1000, -999, -513, -512, -511, -256, -100, -8, -7, -1,
     0, 1, 2, 3, 5, 7, 8, 10, 99, 100, 255, 256, 511, 512, 513, 999, 1000,
     1024, 65536, 8388608}

ItofInputs == {FromInt(n) : n \in ItofInts} \cup {INT_MAX}

InitCodec ==
    /\ cop \in {"ftoi", "itof"}
    /\ cdp \in 0..MaxDp
    /\ IF cop = "ftoi"
       THEN cf \in FtoiInputs /\ cv = Zero32
       ELSE cv \in ItofInputs /\ cf = Zero32
    /\ cpc = "start"
    /\ wf = Zero32
    /\ we = 0
    /\ wdp = 0
    /\ cres = Zero32
    /\ crt = Zero32
    /\ DeviceIdle

\* one call of msensor_ftoi
Ftoi ==
    /\ cop = "ftoi"
    /\ cpc = "start"
    /\ cres' \in msensor_ftoi(cf, cdp)
    /\ cpc' = "done"
    /\ UNCHANGED <<cop, cf, cv, cdp, wf, we, wdp, crt>>
    /\ UNCHANGED <<deviceVars, readerVars>>

----------------------------------------------------------------------------
(* msensor_itof, statement by statement *)

\* unsigned long f = i * s;  with s = -1 for a negative i
ItofMagnitude(i) == IF IsNeg(i) THEN Neg32(i) ELSE i

\* entry: s, e = 127, f = i * s; if (i == 0) return 0; f <<= 23;
ItofEnter ==
    /\ cop = "itof"
    /\ cpc = "start"
    /\ IF cv = Zero32
       THEN /\ cres' = Zero32
            /\ cpc' = "done"
            /\ UNCHANGED <<wf, we, wdp>>
       ELSE /\ wf' = Shl32(ItofMagnitude(cv), 23)
            /\ we' = 127
            /\ wdp' = cdp
            /\ cpc' = "div"
            /\ UNCHANGED cres
    /\ UNCHANGED <<cop, cf, cv, cdp, crt>>
    /\ UNCHANGED <<deviceVars, readerVars>>

\* while (dp-- > 0) f /= 10;
ItofDivide ==
    /\ cpc = "div"
    /\ IF wdp > 0
       THEN wf' = Div10(wf) /\ wdp' = wdp - 1 /\ cpc' = "div"
       ELSE UNCHANGED <<wf, wdp>> /\ cpc' = "down"
    /\ UNCHANGED <<cop, cf, cv, cdp, we, cres, crt>>
    /\ UNCHANGED <<deviceVars, readerVars>>

\* while (f >= (1 << 24)) { f >>= 1; e++; }
ItofShiftDown ==
    /\ cpc = "down"
    /\ IF wf.hi >= 256
       THEN wf' = Shr32(wf, 1) /\ we' = (we + 1) % 256 /\ cpc' = "down"
       ELSE UNCHANGED <<wf, we>> /\ cpc' = "up"
    /\ UNCHANGED <<cop, cf, cv, cdp, wdp, cres, crt>>
    /\ UNCHANGED <<deviceVars, readerVars>>

\* while (f < (1 << 23)) { f <<= 1; e--; }
ItofShiftUp ==
    /\ cpc = "up"
    /\ IF wf.hi < 128
       THEN wf' = Shl32(wf, 1) /\ we' = (we + 255) % 256 /\ cpc' = "up"
       ELSE UNCHANGED <<wf, we>> /\ cpc' = "pack"
    /\ UNCHANGED <<cop, cf, cv, cdp, wdp, cres, crt>>
    /\ UNCHANGED <<deviceVars, readerVars>>

\* f -= 1 << 23; if (s == -1) f |= 0x80000000; return f | e << 23;
\* reached with bit 23 of f set and bits 24..31 clear
ItofPack(f, e, i) ==
    W((IF IsNeg(i) THEN 32768 ELSE 0) + e * 128 + (f.hi - 128), f.lo)

ItofReturn ==
    /\ cpc = "pack"
    /\ cres' = ItofPack(wf, we, cv)
    /\ cpc' = "done"
    /\ UNCHANGED <<cop, cf, cv, cdp, wf, we, wdp, crt>>
    /\ UNCHANGED <<deviceVars, readerVars>>

\* the caller converts the result back: msensor_ftoi(msensor_itof(i, dp), dp)
RoundTrip ==
    /\ cop = "itof"
    /\ cpc = "done"
    /\ crt' \in msensor_ftoi(cres, cdp)
    /\ cpc' = "back"
    /\ UNCHANGED <<cop, cf, cv, cdp, wf, we, wdp, cres>>
    /\ UNCHANGED <<deviceVars, readerVars>>

NextCodec ==
    \/ Ftoi
    \/ ItofEnter
    \/ ItofDivide
    \/ ItofShiftDown
    \/ ItofShiftUp
    \/ ItofReturn
    \/ RoundTrip

SpecCodec == InitCodec /\ [][NextCodec]_vars

\* msensor_itof is straight-line sequential code: once called, the
\* processor keeps executing it.
FairSpecCodec == SpecCodec /\ WF_vars(NextCodec)

----------------------------------------------------------------------------
(* Properties of the codec *)

FtoiReturned == cop = "ftoi" /\ cpc = "done"

\* (1.mantissa) * 10^dp as an integer, for dp <= 2 (below 2^31)
ScaledMantissa(f, dp) ==
    (FloatMant(f).hi * 65536 + FloatMant(f).lo + 8388608) * 10^dp

\* floor(|value| * 10^dp + 1/2) for an exponent field below 150
NearestMagnitude(f, dp) ==
    LET M == ScaledMantissa(f, dp)
        k == 150 - FloatExp(f)
    IN  (M \div 2^k) + (IF M % 2^k >= 2^(k - 1) THEN 1 ELSE 0)

\* C1: for an exponent field in 120..149 and dp in 0..2, msensor_ftoi
\* returns the nearest integer to value * 10^dp, a discarded fraction of one
\* half or more rounded up in magnitude.
C1_RoundsToNearest ==
    (FtoiReturned /\ FloatExp(cf) \in 120..149 /\ cdp \in 0..2)
        => cres = ApplySign(FloatSign(cf), FromNat(NearestMagnitude(cf, cdp)))

\* (1.mantissa) * 10^dp exactly, as [hi, lo] with lo < 2^16 and hi unbounded
RECURSIVE ExactScaled(_, _)
ExactScaled(a, dp) ==
    IF dp = 0 THEN a
    ELSE ExactScaled([hi |-> a.hi * 10 + ((a.lo * 10) \div 65536),
                      lo |-> (a.lo * 10) % 65536], dp - 1)

\* value * 10^dp lies outside the range of a 32-bit int: its magnitude is at
\* least 2^31 for a positive value, more than 2^31 for a negative one
ExceedsInt(f, dp) ==
    LET M == ExactScaled(Add32(FloatMant(f), W(128, 0)), dp)
        s == FloatExp(f) - 150
    IN  IF s > 15 THEN TRUE
        ELSE IF s < -15 THEN FALSE
        ELSE IF FloatSign(f) = 1
             THEN M.hi >= 2^(15 - s)
             ELSE M.hi > 2^(15 - s) \/ (M.hi = 2^(15 - s) /\ M.lo > 0)

\* C2: for a finite input whose scaled value is outside the int range,
\* msensor_ftoi returns INT_MAX (sign clear) or INT_MIN (sign set).
C2_Saturates ==
    (FtoiReturned /\ FloatExp(cf) \in 1..254 /\ cdp \in 0..3
                  /\ ExceedsInt(cf, cdp))
        => cres = (IF FloatSign(cf) = 1 THEN INT_MAX ELSE INT_MIN)

\* C3: for an exponent field in 1..254 and dp in 0..3, a set sign bit gives
\* a result <= 0 and a clear sign bit a result >= 0.
C3_SignPreserving ==
    (FtoiReturned /\ FloatExp(cf) \in 1..254 /\ cdp \in 0..3)
        => IF FloatSign(cf) = -1
           THEN IsNeg(cres) \/ cres = Zero32
           ELSE ~IsNeg(cres)

\* -1000 <= i <= 1000 for a word read as an int
InModerateRange(i) ==
    \/ i.hi = 0 /\ i.lo <= 1000
    \/ i.hi = 65535 /\ i.lo >= 65536 - 1000

\* |a - b| <= 1 for two words read as ints of small magnitude
WithinOne(a, b) ==
    a = b \/ Add32(a, W(0, 1)) = b \/ Add32(b, W(0, 1)) = a

\* C4: for -1000 <= v <= 1000 and dp in 0..3 the round trip
\* msensor_ftoi(msensor_itof(v, dp), dp) is within 1 of v, and
\* msensor_itof(0, dp) = 0.
C4_RoundTrip ==
    /\ (cop = "itof" /\ cpc = "back" /\ InModerateRange(cv) /\ cdp \in 0..3)
           => WithinOne(crt, cv)
    /\ (cop = "itof" /\ cpc \in {"done", "back"} /\ cv = Zero32)
           => cres = Zero32

\* C8: an exponent field of zero gives 0; an exponent field of all ones
\* gives INT_MAX with the sign bit clear and INT_MIN with it set, whatever
\* the mantissa and dp.
C8_SpecialCases ==
    FtoiReturned =>
        /\ FloatExp(cf) = 0 => cres = Zero32
        /\ (FloatExp(cf) = 255 /\ FloatSign(cf) = 1) => cres = INT_MAX
        /\ (FloatExp(cf) = 255 /\ FloatSign(cf) = -1) => cres = INT_MIN

\* a negative NaN with dp = 3 has been converted
C8_Witness ==
    /\ FtoiReturned
    /\ FloatExp(cf) = 255
    /\ FloatMant(cf) # Zero32
    /\ FloatSign(cf) = -1
    /\ cdp = 3
    /\ cres = INT_MIN

\* C9: every call of msensor_itof returns, both normalisation loops leaving
\* the working mantissa in [2^23, 2^24).
C9_ItofTerminates ==
    (cop = "itof" /\ cpc = "start")
        ~> (cpc = "done" /\ (cv # Zero32 => (wf.hi >= 128 /\ wf.hi < 256)))

----------------------------------------------------------------------------
(* The attribute handlers, each called with nothing running beside it. *)

InitDevice == CodecIdle /\ DeviceIdle

Call(op, arg, rc, called, val, out) ==
    [op |-> op, arg |-> arg, rc |-> rc, called |-> called,
     val |-> val, out |-> out]

\* what user space writes to the mode attribute
ModeInputs ==
    {<<"A">>, <<"B">>, <<"C">>, <<"D">>, <<"B", "\n">>, <<"X">>,
     <<"A", "B">>, <<"\n">>, <<>>}

\* msensor_store_mode(dev, attr, buf, count) with count = strlen(buf)
StoreMode(buf) ==
    LET i == FindMode(buf, mode_info)
    IN  /\ IF i < num_modes
           THEN \E r \in set_mode(cur_mode, i) :
                    /\ cur_mode' = r.mode
                    /\ ret' = Call("store_mode", buf,
                                   IF r.err # 0 THEN r.err ELSE Len(buf),
                                   TRUE, Zero32, ZeroBuffer)
           ELSE /\ cur_mode' = cur_mode
                /\ ret' = Call("store_mode", buf, -EINVAL, FALSE, Zero32,
                               ZeroBuffer)
        /\ UNCHANGED <<mode_info, codecVars, readerVars>>

\* msensor_show_value(dev, attr, buf) for the attribute called `name`
ShowValue(name) ==
    LET mode == get_mode(cur_mode)
        index == AttrIndex(name)
    IN  /\ IF Len(name) < 6
              \/ IndexOutOfRange(index, mode_info[mode].data_sets)
           THEN ret' = Call("show_value", name, -ENXIO, FALSE, Zero32,
                            ZeroBuffer)
           ELSE \E v \in RawValue(mode_info[mode].format,
                                  mode_info[get_mode(cur_mode)], index) :
                    ret' = Call("show_value", name, SprintfLen(v), FALSE, v,
                                ZeroBuffer)
        /\ UNCHANGED <<cur_mode, mode_info, codecVars, readerVars>>

\* The body of msensor_read_bin_data: what it returns and the caller's
\* buffer afterwards, the buffer holding ubuf before the call.
msensor_read_bin_data(raw, ubuf, off, count) ==
    LET size == MSENSOR_RAW_DATA_SIZE
    IN  IF off >= size \/ count = 0
        THEN [rc |-> 0, out |-> ubuf]
        ELSE LET n == IF count < size - off THEN count ELSE size - off
             IN  [rc |-> n,
                  out |-> [k \in RawOffsets |->
                              IF k >= off /\ k < off + n
                              THEN raw[k - off]
                              ELSE ubuf[k]]]

\* offsets, lengths and previous buffer contents of a bin_data read
ReadOffsets == {0, 4, 31, 32, 40}
ReadCounts == {0, 4, 32, 4096}
BufferFills == {0, 255}

\* a read of bin_data; the caller's buffer holds `fill` in every byte
ReadBinData(off, count, fill) ==
    LET r == msensor_read_bin_data(
                 mode_info[get_mode(cur_mode)].raw_data,
                 [k \in RawOffsets |-> fill], off, count)
    IN  /\ ret' = Call("read_bin", <<off, count, fill>>, r.rc, FALSE, Zero32,
                       r.out)
        /\ UNCHANGED <<cur_mode, mode_info, codecVars, readerVars>>

\* msensor_write_bin_data with a whole sample: the driver's write_data
\* stores it in the current mode's raw_data and accepts every byte
WriteBinData(s) ==
    /\ mode_info' =
           [mode_info EXCEPT ![get_mode(cur_mode)].raw_data =
               write_data(@, Sample(s), 0, MSENSOR_RAW_DATA_SIZE)]
    /\ ret' = Call("write_bin", <<s>>, MSENSOR_RAW_DATA_SIZE, TRUE, Zero32,
                   ZeroBuffer)
    /\ UNCHANGED <<cur_mode, codecVars, readerVars>>

Next ==
    \/ \E buf \in ModeInputs : StoreMode(buf)
    \/ \E name \in ValueAttrs : ShowValue(name)
    \/ \E off \in ReadOffsets, count \in ReadCounts, fill \in BufferFills :
           ReadBinData(off, count, fill)
    \/ \E s \in 1..NumSamples : WriteBinData(s)

Spec == InitDevice /\ [][Next]_vars

----------------------------------------------------------------------------
(* A value read running beside mode switches: msensor_show_value and the   *)
(* helper it calls, one step per access to the driver's state.  The code   *)
(* takes no lock.                                                          *)

InitConc ==
    /\ CodecIdle
    /\ cur_mode = 0
    /\ mode_info = TableWith([m \in Modes |-> Sample(1 + m)])
    /\ ret = NoCall
    /\ rpc = "idle"
    /\ rmode = 0
    /\ rindex = 0
    /\ hmode = 0
    /\ rval = Zero32
    /\ switched = FALSE

\* line 231: int mode = ms->get_mode(ms->context); lines 235-238: the index
RdEnter(name) ==
    /\ rpc = "idle"
    /\ rmode' = get_mode(cur_mode)
    /\ rindex' = AttrIndex(name)
    /\ rpc' = "check"
    /\ switched' = FALSE
    /\ UNCHANGED <<hmode, rval, deviceVars, codecVars>>

\* lines 239-242: the bound and the format of mode_info[mode]
RdCheck ==
    /\ rpc = "check"
    /\ rpc' = IF IndexOutOfRange(rindex, mode_info[rmode].data_sets)
              THEN "failed" ELSE "helper"
    /\ UNCHANGED <<rmode, rindex, hmode, rval, switched, deviceVars, codecVars>>

\* the helper's own  int mode = ms->get_mode(ms->context);
RdHelperGetMode ==
    /\ rpc = "helper"
    /\ hmode' = get_mode(cur_mode)
    /\ rpc' = "deref"
    /\ UNCHANGED <<rmode, rindex, rval, switched, deviceVars, codecVars>>

\* the helper's read of ms->mode_info[mode].raw_data
RdHelperRead ==
    /\ rpc = "deref"
    /\ \E v \in RawValue(mode_info[rmode].format, mode_info[hmode], rindex) :
           rval' = v
    /\ rpc' = "done"
    /\ UNCHANGED <<rmode, rindex, hmode, switched, deviceVars, codecVars>>

\* msensor_show_value returns
RdReturn ==
    /\ rpc \in {"done", "failed"}
    /\ rpc' = "idle"
    /\ UNCHANGED <<rmode, rindex, hmode, rval, switched, deviceVars, codecVars>>

\* another thread's mode write reaches the driver, which switches to mode m
DrvSwitch(m) ==
    /\ m # cur_mode
    /\ \E r \in set_mode(cur_mode, m) :
           /\ r.err = 0
           /\ cur_mode' = r.mode
    /\ switched' = IF rpc \in {"check", "helper"} THEN TRUE ELSE switched
    /\ UNCHANGED <<mode_info, ret, rpc, rmode, rindex, hmode, rval, codecVars>>

NextConc ==
    \/ \E name \in ValueAttrs : RdEnter(name)
    \/ RdCheck
    \/ RdHelperGetMode
    \/ RdHelperRead
    \/ RdReturn
    \/ \E m \in Modes : DrvSwitch(m)

SpecConc == InitConc /\ [][NextConc]_vars

----------------------------------------------------------------------------
(* Properties of the device *)

\* C5: a bin_data read at `off` for `count` bytes returns 0 when
\* off >= 32 or count = 0, and otherwise n = min(count, 32 - off) bytes,
\* byte k of the result being byte off + k of the current mode's raw_data.
C5_ReadRawWindow ==
    ret.op = "read_bin" =>
        LET off == ret.arg[1]
            count == ret.arg[2]
            S == MSENSOR_RAW_DATA_SIZE
            n == IF count < S - off THEN count ELSE S - off
        IN  IF off >= S \/ count = 0
            THEN ret.rc = 0
            ELSE /\ ret.rc = n
                 /\ \A k \in 0..(n - 1) :
                        ret.out[k] = mode_info[cur_mode].raw_data[off + k]

\* the written name is the name of no mode, with or without a final newline
UnknownName(buf) ==
    \A m \in Modes :
        /\ buf # ModeTable[m + 1].name
        /\ buf # ModeTable[m + 1].name \o <<"\n">>

\* C6: a handler call that returns an error leaves the mode table and the
\* current mode as they were, and a mode write with an unknown name returns
\* -EINVAL without calling the driver's set_mode.
C6_ErrorsLeaveDeviceUnchanged ==
    /\ [][ret'.rc < 0 => (mode_info' = mode_info /\ cur_mode' = cur_mode)]_vars
    /\ []((ret.op = "store_mode" /\ UnknownName(ret.arg))
              => (ret.rc = -EINVAL /\ ~ret.called))

\* an unknown name was refused with the device in mode 2 and holding data
C6_Witness ==
    /\ ret.op = "store_mode"
    /\ ret.arg = <<"X">>
    /\ ret.rc = -EINVAL
    /\ cur_mode = 2
    /\ mode_info[2].raw_data = Sample(1)

\* the bytes off .. off + w - 1 of raw read as a little-endian two's
\* complement integer, w in {1, 2, 4}
SignedLE(raw, off, w) ==
    IF w = 4
    THEN W(raw[off + 3] * 256 + raw[off + 2], raw[off + 1] * 256 + raw[off])
    ELSE LET u == IF w = 1 THEN raw[off] ELSE raw[off] + raw[off + 1] * 256
         IN  IF u >= 2^(8 * w - 1) THEN FromInt(u - 2^(8 * w)) ELSE FromInt(u)

\* the values a read of element `index` may return when the buffer of
\* `info` is decoded in `format`
ExpectedValue(format, info, index) ==
    IF format = "MSENSOR_DATA_8" THEN {SignedLE(info.raw_data, index, 1)}
    ELSE IF format = "MSENSOR_DATA_16"
    THEN {SignedLE(info.raw_data, index * 2, 2)}
    ELSE IF format = "MSENSOR_DATA_32"
    THEN {SignedLE(info.raw_data, index * 4, 4)}
    ELSE msensor_ftoi(SignedLE(info.raw_data, index * 4, 4), info.decimals)

\* C7: a value read fails with -ENXIO exactly when index >= data_sets of
\* the current mode (or index < 0), and otherwise returns the element at
\* byte offset index * w of the current mode's raw_data, decoded as a
\* little-endian signed integer of the format's width, or through
\* msensor_ftoi with the mode's decimals for the float format.
C7_DecodedValue ==
    ret.op = "show_value" =>
        LET info == mode_info[cur_mode]
            index == DigitValue(ret.arg[Len(ret.arg)])
        IN  IF index < 0 \/ index >= info.data_sets
            THEN ret.rc = -ENXIO
            ELSE /\ ret.rc > 0
                 /\ ret.val \in ExpectedValue(info.format, info, index)

\* value1 of the 16-bit mode read -1 from the bytes 01 00 FF FF
C7_Witness ==
    /\ ret.op = "show_value"
    /\ cur_mode = 1
    /\ ret.arg[6] = "1"
    /\ mode_info[1].raw_data[2] = 255
    /\ mode_info[1].raw_data[3] = 255
    /\ ret.val = FromInt(-1)
    /\ ret.rc = 3

\* C10 as stated: the mode that validated the index and chose the decoder
\* is the mode whose raw_data is decoded, in every interleaving.
C10_ModeConsistent == rpc = "done" => hmode = rmode

\* C10 as the code has it: the bound and the format are those of the mode
\* read at line 231, the buffer and decimals those of the mode the helper
\* reads; the two are the same mode when no switch fell between the reads.
C10_ConsistentUnlessSwitched ==
    rpc = "done" =>
        /\ ~switched => hmode = rmode
        /\ ~IndexOutOfRange(rindex, mode_info[rmode].data_sets)
        /\ rval \in ExpectedValue(mode_info[rmode].format, mode_info[hmode],
                                  rindex)

\* element 1 was validated as 16-bit data of mode 1 and then read from the
\* raw_data of mode 2, after a switch between the two get_mode calls
C10_Witness ==
    /\ rpc = "done"
    /\ switched
    /\ rmode = 1
    /\ hmode = 2
    /\ rindex = 1
    /\ rval = SignedLE(mode_info[2].raw_data, 2, 2)

====
